---- MODULE Spec2Model ----
(***************************************************************************)
(* Case lifecycle and reconciliation engine of the loan-recovery tracker:  *)
(* customerCaseService (createBulkCases, assignCase, updateCase,           *)
(* addCallLog, recordPayment), the modal handlers that drive it           *)
(* (handleStatusUpdateSubmit, handlePaymentReceived, handleBulkAssignment, *)
(* handleSelectAll, handleCaseSelect), the call history read and the       *)
(* import file parser excelUtils.parseExcelFile.                           *)
(*                                                                         *)
(* The case store and the call-log store are the two tables behind the     *)
(* service.  A storage call can succeed, return an error or throw; which   *)
(* one happens is an input of the action that makes the call.              *)
(***************************************************************************)
EXTENDS Integers, Sequences, FiniteSets, TLC

VARIABLES
    cases,      \* customer_cases: sequence of rows, a row's id is its index
    callLogs,   \* case_call_logs: sequence of entries in creation order
    pay,        \* per concurrent recordPayment call: its position and locals
    last,       \* report of the latest operation (what the caller observes)
    served,     \* number of requests accepted so far
    modal       \* state of the case-management dialog of a team incharge

vars == <<cases, callLogs, pay, last, served, modal>>

----------------------------------------------------------------------------
(* Bounds of the model *)

MaxRequests == 4    \* requests served in one behaviour
MaxSubmits == 1     \* submits of the case-management dialog in one behaviour
MaxUploads == 1     \* multi-row uploads in one behaviour of uploads alone
MaxRows == 2        \* rows of one bulk upload
MaxLogs == 3        \* entries of the call-log store
MaxAmount == 3      \* largest single payment
MaxSheetRows == 2   \* data rows of an import sheet

\* One more request is accepted.
Serve == served < MaxRequests /\ served' = served + 1

----------------------------------------------------------------------------
(* Values *)

NULL == "null"                       \* JS null / undefined, SQL NULL
NullText == <<NULL>>                 \* a text column or field that is null
EmptyText == <<>>                    \* the empty string ''

\* A text is a sequence of one-character strings.
Digits == <<"0", "1", "2", "3", "4", "5", "6", "7", "8", "9">>

IsDigit(ch) == \E d \in 1..10 : Digits[d] = ch

DigitVal(ch) == (CHOOSE d \in 1..10 : Digits[d] = ch) - 1

\* JS numbers that may be NaN
JSNum(n) == [nan |-> FALSE, val |-> n]
JSNaN == [nan |-> TRUE, val |-> 0]

RECURSIVE LeadingDigits(_)
LeadingDigits(t) ==
    IF t = <<>> \/ ~IsDigit(Head(t)) THEN <<>>
    ELSE <<Head(t)>> \o LeadingDigits(Tail(t))

RECURSIVE DigitsValue(_)
DigitsValue(t) ==
    IF t = <<>> THEN 0
    ELSE 10 * DigitsValue(SubSeq(t, 1, Len(t) - 1)) + DigitVal(t[Len(t)])

\* parseFloat on unsigned integer texts: the longest numeric prefix, NaN if none
ParseFloat(t) ==
    LET d == LeadingDigits(t)
    IN IF d = <<>> THEN JSNaN ELSE JSNum(DigitsValue(d))

\* String(n) for a non-negative integer
RECURSIVE NumToStr(_)
NumToStr(n) ==
    IF n < 10 THEN <<Digits[n + 1]>>
    ELSE NumToStr(n \div 10) \o <<Digits[(n % 10) + 1]>>

\* text || dflt : null and '' are falsy
TextOr(t, dflt) == IF t = NullText \/ t = EmptyText THEN dflt ELSE t

\* a - b on JS numbers
JSSub(a, b) == IF a.nan \/ b.nan THEN JSNaN ELSE JSNum(a.val - b.val)

\* Variant: strictly below zero.
JSLeqZero_Strict(a) == ~a.nan /\ a.val < 0

\* a <= 0 on a JS number: every comparison with NaN is false
JSLeqZero(a) == ~a.nan /\ a.val <= 0

\* remarks.trim(): strip leading and trailing blanks
RECURSIVE TrimLeft(_)
TrimLeft(t) == IF t # <<>> /\ Head(t) = " " THEN TrimLeft(Tail(t)) ELSE t

RECURSIVE TrimRight(_)
TrimRight(t) ==
    IF t # <<>> /\ t[Len(t)] = " " THEN TrimRight(SubSeq(t, 1, Len(t) - 1)) ELSE t

Trim(t) == TrimRight(TrimLeft(t))

----------------------------------------------------------------------------
(* The employee directory (employees table), in iteration order *)

Employees == <<
    [id |-> "u1", emp_id |-> "E1", tenant_id |-> "t1", role |-> "Telecaller", status |-> "active",
     name |-> "Asha"],
    [id |-> "u2", emp_id |-> "E2", tenant_id |-> "t2", role |-> "Telecaller", status |-> "inactive",
     name |-> "Ravi"]
>>

EmployeeIds == {Employees[k].id : k \in DOMAIN Employees}

UnknownEmployeeId == "u9"            \* an id no employee row has

TeamIds == {"T1", "T2"}

----------------------------------------------------------------------------
(* Bulk reconciliation: customerCaseService.createBulkCases *)

\* Rows an upload can carry (the mapped rows handed to createBulkCases).
RowPool == {
    [tenant_id |-> "t1", loan_id |-> "L1", customer_name |-> "A",
     outstanding_amount |-> <<"3">>, case_data |-> [EMPID |-> "E1"]],
    [tenant_id |-> "t1", loan_id |-> "L1", customer_name |-> "B",
     outstanding_amount |-> NullText, case_data |-> [EMPID |-> ""]],
    [tenant_id |-> "t2", loan_id |-> "L1", customer_name |-> "A",
     outstanding_amount |-> <<"x">>, case_data |-> [EMPID |-> "E1"]],
    [tenant_id |-> "t2", loan_id |-> "L1", customer_name |-> "A",
     outstanding_amount |-> EmptyText, case_data |-> [EMPID |-> "E2"]]
}

Batches == UNION {[1..n -> RowPool] : n \in 1..MaxRows}

StorageOutcomes == {"ok", "error", "throw"}

\* Variant: the roster is not filtered by status.
ActiveTelecallers_AnyStatus(tenantId) ==
    SelectSeq(Employees, LAMBDA e : e.tenant_id = tenantId /\ e.role = "Telecaller")

\* The roster query: active telecallers of the tenant of the first row.
ActiveTelecallers(tenantId) ==
    SelectSeq(Employees, LAMBDA e : e.tenant_id = tenantId
                                    /\ e.role = "Telecaller"
                                    /\ e.status = "active")

\* telecallerMap after telecallers.forEach(tel => map.set(tel.emp_id, tel.id)):
\* a later entry for the same emp_id replaces an earlier one.
RECURSIVE TelecallerMap(_)
TelecallerMap(roster) ==
    IF roster = <<>> THEN [k \in {} |-> NULL]
    ELSE LET rest == TelecallerMap(SubSeq(roster, 1, Len(roster) - 1))
             tel == roster[Len(roster)]
         IN [k \in DOMAIN rest \cup {tel.emp_id} |->
                IF k = tel.emp_id THEN tel.id ELSE rest[k]]

\* if (caseData.case_data?.EMPID && telecallerMap.has(String(EMPID)))
RowMatches(row, telecallerMap) ==
    /\ row.case_data.EMPID # NULL
    /\ row.case_data.EMPID # ""
    /\ row.case_data.EMPID \in DOMAIN telecallerMap

\* caseData after the auto-assignment branch has written its three fields
AssignedRow(row, telecallerMap) ==
    IF RowMatches(row, telecallerMap)
    THEN [tenant_id |-> row.tenant_id, loan_id |-> row.loan_id,
          customer_name |-> row.customer_name,
          outstanding_amount |-> row.outstanding_amount,
          case_data |-> row.case_data,
          telecaller_id |-> telecallerMap[row.case_data.EMPID],
          assigned_employee_id |-> row.case_data.EMPID,
          status |-> "assigned"]
    ELSE [tenant_id |-> row.tenant_id, loan_id |-> row.loan_id,
          customer_name |-> row.customer_name,
          outstanding_amount |-> row.outstanding_amount,
          case_data |-> row.case_data,
          telecaller_id |-> NULL,
          assigned_employee_id |-> NULL,
          status |-> "new"]

\* ids of the stored cases with the key (tenant_id, loan_id)
CasesWithKey(store, tenantId, loanId) ==
    {c \in DOMAIN store : store[c].tenant_id = tenantId /\ store[c].loan_id = loanId}

\* A freshly inserted row: columns the payload does not name take their defaults.
InsertedCase(caseData) ==
    [tenant_id |-> caseData.tenant_id, loan_id |-> caseData.loan_id,
     customer_name |-> caseData.customer_name,
     outstanding_amount |-> caseData.outstanding_amount,
     case_data |-> caseData.case_data,
     telecaller_id |-> caseData.telecaller_id,
     assigned_employee_id |-> caseData.assigned_employee_id,
     status |-> caseData.status,
     team_id |-> NULL,
     case_status |-> "pending",
     total_collected_amount |-> 0]

\* Variant: the conflicting row is replaced by a fresh one.
UpdatedCase_Replace(old, caseData) == InsertedCase(caseData)

\* ON CONFLICT (tenant_id, loan_id) DO UPDATE: the payload's columns are
\* overwritten, the others (team_id, case_status, total_collected_amount) kept.
UpdatedCase(old, caseData) ==
    [old EXCEPT !.customer_name = caseData.customer_name,
                !.outstanding_amount = caseData.outstanding_amount,
                !.case_data = caseData.case_data,
                !.telecaller_id = caseData.telecaller_id,
                !.assigned_employee_id = caseData.assigned_employee_id,
                !.status = caseData.status]

\* supabase.from(CUSTOMER_CASE_TABLE).upsert([caseData], {onConflict: 'tenant_id,loan_id'})
Upsert(store, caseData) ==
    LET hit == CasesWithKey(store, caseData.tenant_id, caseData.loan_id)
    IN IF hit = {} THEN Append(store, InsertedCase(caseData))
       ELSE [c \in DOMAIN store |->
                IF c \in hit THEN UpdatedCase(store[c], caseData) ELSE store[c]]

EmptyUpload ==
    [totalUploaded |-> 0, autoAssigned |-> 0, unassigned |-> 0,
     errors |-> <<>>, attempted |-> <<>>]

\* Variant: totalUploaded is counted before the upsert is issued.
BulkRow_CountBeforeUpsert(acc, row, i, outcome, telecallerMap) ==
    LET caseData == AssignedRow(row, telecallerMap)
        counted == [acc.res EXCEPT !.totalUploaded = @ + 1,
                                   !.unassigned = @ + 1,
                                   !.attempted = Append(@, i)]
    IN IF outcome = "ok"
       THEN [store |-> Upsert(acc.store, caseData), res |-> counted]
       ELSE [store |-> acc.store,
             res |-> [counted EXCEPT
                         !.errors = Append(@, [row |-> i, error |-> outcome,
                                               data |-> caseData])]]

\* One iteration of the loop body for row i (1-based), with the outcome of
\* its upsert call.  acc = [store, res]; res.attempted lists the rows whose
\* upsert was issued, in the order issued.
BulkRow(acc, row, i, outcome, telecallerMap) ==
    LET caseData == AssignedRow(row, telecallerMap)
        matched == RowMatches(row, telecallerMap)
        counted == [acc.res EXCEPT
                       !.autoAssigned = IF matched THEN @ + 1 ELSE @,
                       !.unassigned = IF matched THEN @ ELSE @ + 1,
                       !.attempted = Append(@, i)]
    IN IF outcome = "ok"
       THEN [store |-> Upsert(acc.store, caseData),
             res |-> [counted EXCEPT !.totalUploaded = @ + 1]]
       ELSE [store |-> acc.store,
             res |-> [counted EXCEPT
                         !.errors = Append(@, [row |-> i, error |-> outcome,
                                               data |-> caseData])]]

\* Variant: the loop stops at the first row that fails.
RECURSIVE BulkLoop_AbortOnError(_, _, _, _)
BulkLoop_AbortOnError(store, rows, outcomes, telecallerMap) ==
    IF rows = <<>> THEN [store |-> store, res |-> EmptyUpload]
    ELSE LET n == Len(rows)
             acc == BulkLoop_AbortOnError(store, SubSeq(rows, 1, n - 1),
                                          SubSeq(outcomes, 1, n - 1), telecallerMap)
         IN IF acc.res.errors # <<>> THEN acc
            ELSE BulkRow(acc, rows[n], n, outcomes[n], telecallerMap)

RECURSIVE BulkLoop(_, _, _, _)
BulkLoop(store, rows, outcomes, telecallerMap) ==
    IF rows = <<>> THEN [store |-> store, res |-> EmptyUpload]
    ELSE LET n == Len(rows)
             acc == BulkLoop(store, SubSeq(rows, 1, n - 1),
                             SubSeq(outcomes, 1, n - 1), telecallerMap)
         IN BulkRow(acc, rows[n], n, outcomes[n], telecallerMap)

\* The columns of a case that an upload row maps
MappedFields(r) ==
    [tenant_id |-> r.tenant_id, loan_id |-> r.loan_id,
     customer_name |-> r.customer_name,
     outstanding_amount |-> r.outstanding_amount, case_data |-> r.case_data]

SameKey(a, b) == a.tenant_id = b.tenant_id /\ a.loan_id = b.loan_id

\* The stored cases for which this upload re-applies the row they already
\* hold: a row of the upload that reaches storage equals the case in every
\* mapped column, and no other row that reaches storage has its key.
IdenticalRerun(store, rows, outcomes) ==
    {c \in DOMAIN store :
        \E i \in DOMAIN rows :
            /\ outcomes[i] = "ok"
            /\ MappedFields(rows[i]) = MappedFields(store[c])
            /\ \A j \in DOMAIN rows :
                  outcomes[j] = "ok" /\ SameKey(rows[j], rows[i]) => rows[j] = rows[i]}

\* createBulkCases(cases), outcomes[i] being what the upsert of row i does
CreateBulkCases(rows, outcomes) ==
    LET roster == ActiveTelecallers(rows[1].tenant_id)
        telecallerMap == TelecallerMap(roster)
        out == BulkLoop(cases, rows, outcomes, telecallerMap)
    IN /\ cases' = out.store
       /\ last' = [op |-> "createBulkCases", rows |-> rows, outcomes |-> outcomes,
                   rerun |-> IdenticalRerun(cases, rows, outcomes),
                   ok |-> TRUE, result |-> out.res]
       /\ UNCHANGED <<callLogs, pay>>

----------------------------------------------------------------------------
(* Partial updates of one case: updateCase and assignCase *)

\* Case ids a caller can name: every id the store can hold.
CaseIds == 1..Cardinality({<<r.tenant_id, r.loan_id>> : r \in RowPool})

Exists(c) == c \in DOMAIN cases

\* .update(updates).eq('id', caseId): no row is touched when the id matches none
SetStatus(store, c, status) ==
    [k \in DOMAIN store |-> IF k = c THEN [store[k] EXCEPT !.status = status] ELSE store[k]]

\* Variant: moving a case to a team also takes it from its telecaller.
SetTeam_ClearTelecaller(store, c, teamId) ==
    [k \in DOMAIN store |->
        IF k = c THEN [store[k] EXCEPT !.team_id = teamId, !.telecaller_id = NULL]
        ELSE store[k]]

SetTeam(store, c, teamId) ==
    [k \in DOMAIN store |-> IF k = c THEN [store[k] EXCEPT !.team_id = teamId] ELSE store[k]]

\* Variant: assigned_employee_id is left as it was.
SetAssignment_KeepEmployeeId(store, c, telecallerId, empId, status) ==
    [k \in DOMAIN store |->
        IF k = c THEN [store[k] EXCEPT !.telecaller_id = telecallerId,
                                       !.status = status]
        ELSE store[k]]

SetAssignment(store, c, telecallerId, empId, status) ==
    [k \in DOMAIN store |->
        IF k = c THEN [store[k] EXCEPT !.telecaller_id = telecallerId,
                                       !.assigned_employee_id = empId,
                                       !.status = status]
        ELSE store[k]]

\* Variant: the lookup returns a row whatever the id.
EmployeeById_AnyRow(id) == DOMAIN Employees

\* .from(EMPLOYEE_TABLE).select('emp_id').eq('id', telecallerId).single()
EmployeeById(id) == {k \in DOMAIN Employees : Employees[k].id = id}

EmpIdOf(id) == Employees[CHOOSE k \in EmployeeById(id) : TRUE].emp_id

\* Variant: the employee id string is never written.
EmpIdOrNull_AlwaysNull(id) == NULL

\* telecaller.emp_id || null
EmpIdOrNull(id) == IF EmpIdOf(id) = "" THEN NULL ELSE EmpIdOf(id)

AssignFailures == {"none", "lookup", "update"}

\* assignCase(caseId, {telecallerId}) with telecallerId truthy: Assign
AssignCase(c, telecallerId, fail) ==
    LET found == EmployeeById(telecallerId) # {} /\ fail # "lookup"
        ok == found /\ fail # "update"
    IN /\ cases' = IF ok
                   THEN SetAssignment(cases, c, telecallerId, EmpIdOrNull(telecallerId), "assigned")
                   ELSE cases
       /\ last' = [op |-> "assign", caseId |-> c, telecallerId |-> telecallerId, ok |-> ok,
                   error |-> IF ok THEN NULL
                             ELSE IF ~found THEN "Failed to find telecaller details"
                             ELSE "Failed to update case assignment"]
       /\ UNCHANGED <<callLogs, pay>>

\* Variant: the status is written as 'assigned' on both branches.
UnassignCase_StatusAssigned(c, fail) ==
    LET ok == fail # "update"
    IN /\ fail # "lookup"
       /\ cases' = IF ok THEN SetAssignment(cases, c, NULL, NULL, "assigned") ELSE cases
       /\ last' = [op |-> "unassign", caseId |-> c, ok |-> ok,
                   error |-> IF ok THEN NULL ELSE "Failed to update case assignment"]
       /\ UNCHANGED <<callLogs, pay>>

\* assignCase(caseId, {telecallerId: null}): Unassign
UnassignCase(c, fail) ==
    LET ok == fail # "update"
    IN /\ fail # "lookup"
       /\ cases' = IF ok THEN SetAssignment(cases, c, NULL, NULL, "new") ELSE cases
       /\ last' = [op |-> "unassign", caseId |-> c, ok |-> ok,
                   error |-> IF ok THEN NULL ELSE "Failed to update case assignment"]
       /\ UNCHANGED <<callLogs, pay>>

\* updateCase(caseId, {team_id}): ChangeTeam.  .single() fails when no row matched.
ChangeTeam(c, teamId, fail) ==
    LET ok == Exists(c) /\ fail = "none"
    IN /\ fail \in {"none", "update"}
       /\ cases' = IF ok THEN SetTeam(cases, c, teamId) ELSE cases
       /\ last' = [op |-> "changeTeam", caseId |-> c, teamId |-> teamId, ok |-> ok,
                   error |-> IF ok THEN NULL ELSE "Failed to update case"]
       /\ UNCHANGED <<callLogs, pay>>

----------------------------------------------------------------------------
(* Bulk assignment: handleBulkAssignment over assignCase and updateCase *)

ActionTypes == {"assign", "unassign", "change_team"}

\* selectedCases: a set of case ids, iterated in insertion order
Selections ==
    {<<>>} \cup {<<c>> : c \in CaseIds}
    \cup {x \in CaseIds \X CaseIds : x[1] # x[2]}

\* selectedTelecaller: a telecaller id or a team id picked in the dialog,
\* '' while nothing is picked
SelectedTargets(actionType) ==
    IF actionType = "assign" THEN EmployeeIds \cup {UnknownEmployeeId, ""}
    ELSE IF actionType = "change_team" THEN TeamIds \cup {""}
    ELSE {""}

CaseFailures(actionType) ==
    IF actionType = "assign" THEN AssignFailures ELSE {"none", "update"}

\* A case id as the uuid text it is; ids of the store share their first
\* eight characters here.
CaseIdText(c) == <<"c", "a", "5", "e", "0", "0", "0", "0", "-">> \o NumToStr(c)

\* caseId.substring(0, 8)
Substring8(t) == SubSeq(t, 1, IF Len(t) < 8 THEN Len(t) ELSE 8)

\* The three checks before the loop
MissingData(actionType, selected, ids) ==
    \/ actionType = "assign" /\ (selected = "" \/ ids = <<>>)
    \/ actionType = "unassign" /\ ids = <<>>
    \/ actionType = "change_team" /\ (selected = "" \/ ids = <<>>)

\* The call made for one case id inside the try block: the store afterwards,
\* and the message of the error thrown, NULL when the call returned.
CaseCall(store, actionType, c, selected, fail) ==
    IF actionType = "assign"
    THEN LET found == EmployeeById(selected) # {} /\ fail # "lookup"
         IN IF ~found
            THEN [store |-> store, error |-> "Failed to find telecaller details"]
            ELSE IF fail = "update"
            THEN [store |-> store, error |-> "Failed to update case assignment"]
            ELSE [store |-> SetAssignment(store, c, selected, EmpIdOrNull(selected),
                                          "assigned"),
                  error |-> NULL]
    ELSE IF actionType = "unassign"
    THEN IF fail = "update"
         THEN [store |-> store, error |-> "Failed to update case assignment"]
         ELSE [store |-> SetAssignment(store, c, NULL, NULL, "new"), error |-> NULL]
    ELSE IF c \in DOMAIN store /\ fail = "none"
         THEN [store |-> SetTeam(store, c, selected), error |-> NULL]
         ELSE [store |-> store, error |-> "Failed to update case"]

EmptyAssignment ==
    [successCount |-> 0, errorCount |-> 0, errors |-> <<>>, attempted |-> <<>>]

\* Variant: the first failure ends the loop.
RECURSIVE AssignmentLoop_StopOnError(_, _, _, _, _)
AssignmentLoop_StopOnError(store, ids, actionType, selected, fails) ==
    IF ids = <<>> THEN [store |-> store, res |-> EmptyAssignment]
    ELSE LET n == Len(ids)
             acc == AssignmentLoop_StopOnError(store, SubSeq(ids, 1, n - 1), actionType,
                                               selected, SubSeq(fails, 1, n - 1))
             call == CaseCall(acc.store, actionType, ids[n], selected, fails[n])
         IN IF acc.res.errorCount > 0 THEN acc
            ELSE [store |-> call.store,
                  res |-> IF call.error = NULL
                          THEN [acc.res EXCEPT !.successCount = @ + 1,
                                               !.attempted = Append(@, ids[n])]
                          ELSE [acc.res EXCEPT
                                   !.errorCount = @ + 1,
                                   !.errors = Append(@, [caseId |-> Substring8(CaseIdText(ids[n])),
                                                         error |-> call.error]),
                                   !.attempted = Append(@, ids[n])]]

\* for (i = 0; i < selectedCaseIds.length; i++) { try {...} catch {...} }
\* res.attempted lists the case ids for which the call was made, in order.
RECURSIVE AssignmentLoop(_, _, _, _, _)
AssignmentLoop(store, ids, actionType, selected, fails) ==
    IF ids = <<>> THEN [store |-> store, res |-> EmptyAssignment]
    ELSE LET n == Len(ids)
             acc == AssignmentLoop(store, SubSeq(ids, 1, n - 1), actionType,
                                   selected, SubSeq(fails, 1, n - 1))
             call == CaseCall(acc.store, actionType, ids[n], selected, fails[n])
         IN [store |-> call.store,
             res |-> IF call.error = NULL
                     THEN [acc.res EXCEPT !.successCount = @ + 1,
                                          !.attempted = Append(@, ids[n])]
                     ELSE [acc.res EXCEPT
                              !.errorCount = @ + 1,
                              !.errors = Append(@, [caseId |-> Substring8(CaseIdText(ids[n])),
                                                    error |-> call.error]),
                              !.attempted = Append(@, ids[n])]]

\* handleBulkAssignment: the checks, the loop, then setAssignmentResult
HandleBulkAssignment(actionType, selected, ids, fails) ==
    LET out == AssignmentLoop(cases, ids, actionType, selected, fails)
    IN IF MissingData(actionType, selected, ids)
       THEN /\ last' = [op |-> "bulkAssignment", action |-> actionType, caseIds |-> ids,
                        selected |-> selected, fails |-> fails, ok |-> FALSE, error |-> "Missing Data"]
            /\ UNCHANGED <<cases, callLogs, pay>>
       ELSE /\ cases' = out.store
            /\ last' = [op |-> "bulkAssignment", action |-> actionType, caseIds |-> ids,
                        selected |-> selected, fails |-> fails, ok |-> TRUE, attempted |-> out.res.attempted,
                        result |-> [total |-> Len(ids),
                                    success |-> out.res.successCount,
                                    errors |-> out.res.errorCount,
                                    errorDetails |-> out.res.errors,
                                    action |-> actionType]]
            /\ UNCHANGED <<callLogs, pay>>

----------------------------------------------------------------------------
(* The case-management dialog: its React state and its handlers *)

\* The signed-in team incharge's tenant.
UserTenant == "t1"

\* useState defaults; the search box stays empty, so filteredCases is allCases.
ClosedModal ==
    [actionType |-> "assign", selectedTeam |-> "", selectedTelecaller |-> "",
     filteredCases |-> <<>>, selectedCases |-> <<>>]

\* getTeamCases: the tenant's cases of the team, newest first
RECURSIVE TeamCases(_, _, _)
TeamCases(store, tenantId, teamId) ==
    IF store = <<>> THEN <<>>
    ELSE LET n == Len(store)
             older == TeamCases(SubSeq(store, 1, n - 1), tenantId, teamId)
         IN IF store[n].tenant_id = tenantId /\ store[n].team_id = teamId
            THEN <<[id |-> n, telecaller_id |-> store[n].telecaller_id]>> \o older
            ELSE older

\* getApplicableCases
GetApplicableCases(m) ==
    IF m.actionType = "assign"
    THEN SelectSeq(m.filteredCases, LAMBDA c : c.telecaller_id = NULL)
    ELSE IF m.actionType = "unassign"
    THEN SelectSeq(m.filteredCases, LAMBDA c : c.telecaller_id # NULL)
    ELSE m.filteredCases

CaseIdsOf(list) == [k \in DOMAIN list |-> list[k].id]

\* loadTeamCases, then the applyFilters effect that follows setAllCases
LoadTeamCases(m, store, teamId, fail) ==
    IF fail THEN m
    ELSE [m EXCEPT !.filteredCases = TeamCases(store, UserTenant, teamId),
                   !.selectedCases = <<>>]

HandleTeamChange(teamId, fail) ==
    /\ modal' = LoadTeamCases([modal EXCEPT !.selectedTeam = teamId,
                                            !.selectedTelecaller = "",
                                            !.actionType = "assign"],
                              cases, teamId, fail)
    /\ UNCHANGED <<cases, callLogs, pay, last, served>>

\* onChange of the action type select
SetActionType(actionType) ==
    /\ modal' = [modal EXCEPT !.actionType = actionType, !.selectedTelecaller = "",
                              !.selectedCases = <<>>]
    /\ UNCHANGED <<cases, callLogs, pay, last, served>>

\* onChange of the telecaller / team select
SetSelectedTelecaller(target) ==
    /\ modal' = [modal EXCEPT !.selectedTelecaller = target]
    /\ UNCHANGED <<cases, callLogs, pay, last, served>>

\* the checkbox of one row of the table, which lists the applicable cases
HandleCaseSelect(caseId) ==
    /\ \E k \in DOMAIN GetApplicableCases(modal) : GetApplicableCases(modal)[k].id = caseId
    /\ modal' = [modal EXCEPT !.selectedCases =
                    IF \E k \in DOMAIN @ : @[k] = caseId
                    THEN SelectSeq(@, LAMBDA x : x # caseId)
                    ELSE Append(@, caseId)]
    /\ UNCHANGED <<cases, callLogs, pay, last, served>>

\* selectedCases after handleSelectAll
SelectAll(m) ==
    IF Len(m.selectedCases) = Len(m.filteredCases) THEN <<>>
    ELSE CaseIdsOf(m.filteredCases)

\* the checkbox in the table header; the table is rendered when there is an
\* applicable case
HandleSelectAll ==
    /\ GetApplicableCases(modal) # <<>>
    /\ modal' = [modal EXCEPT !.selectedCases = SelectAll(modal)]
    /\ UNCHANGED <<cases, callLogs, pay, last, served>>

----------------------------------------------------------------------------
(* Call/status log: handleStatusUpdateSubmit over addCallLog and updateCase *)

Notes == <<"o", "k">>

\* case_call_logs.amount_collected numeric DEFAULT 0 CHECK (amount_collected >= 0):
\* a text that is not a number is refused by the insert
IsNumericText(t) == t # <<>> /\ \A k \in DOMAIN t : IsDigit(t[k])

InsertRejected(callLog) ==
    callLog.amount_collected # NullText /\ ~IsNumericText(callLog.amount_collected)

\* The row the insert creates: an amount left out takes the column default.
StoredCallLog(callLog) ==
    [callLog EXCEPT !.amount_collected = IF @ = NullText THEN 0 ELSE DigitsValue(@)]

\* The form's fields at submit: call status, PTP date, PTP time, remarks.
LogForms == {
    [callStatus |-> "RNR", ptpDate |-> "", ptpTime |-> "", remarks |-> Notes],
    [callStatus |-> "PTP", ptpDate |-> "d", ptpTime |-> "", remarks |-> Notes],
    [callStatus |-> "PTP", ptpDate |-> "d", ptpTime |-> "t", remarks |-> Notes],
    [callStatus |-> "PTP", ptpDate |-> "", ptpTime |-> "", remarks |-> Notes],
    [callStatus |-> "FUTURE_PTP", ptpDate |-> "", ptpTime |-> "t", remarks |-> Notes],
    [callStatus |-> "RNR", ptpDate |-> "", ptpTime |-> "", remarks |-> <<" ">>],
    [callStatus |-> "RNR", ptpDate |-> "", ptpTime |-> "", remarks |-> EmptyText],
    [callStatus |-> "PTP", ptpDate |-> "d", ptpTime |-> "", remarks |-> <<" ", " ">>],
    [callStatus |-> "", ptpDate |-> "", ptpTime |-> "", remarks |-> Notes]
}

\* A submit by a signed-in user with each form, and one without a user.
LogInputs ==
    {[userId |-> "u1", form |-> f] : f \in LogForms}
    \cup {[userId |-> NULL, form |-> f] : f \in {g \in LogForms : g.ptpTime = "t" /\ g.ptpDate = "d"}}

\* Variant: the promise-to-pay date is not checked.
LogFormError_NoDateCheck(userId, form) ==
    IF userId = NULL THEN "Missing case or user information"
    ELSE IF form.callStatus = "" \/ Trim(form.remarks) = EmptyText
         THEN "Please fill in all required fields"
    ELSE NULL

\* the checks before setIsSubmitting(true)
LogFormError(userId, form) ==
    IF userId = NULL THEN "Missing case or user information"
    ELSE IF form.callStatus = "" \/ Trim(form.remarks) = EmptyText
         THEN "Please fill in all required fields"
    ELSE IF form.callStatus \in {"PTP", "FUTURE_PTP"} /\ form.ptpDate = ""
         THEN "PTP Date is required for Promise to Pay"
    ELSE NULL

\* ptpDateTime: date and time, date at midnight, or undefined
\* Variant: a timestamp only when both the date and the time are filled in.
PtpDateTime_DateAndTimeOnly(form) ==
    IF form.ptpDate # "" /\ form.ptpTime # ""
    THEN <<form.ptpDate, "T", form.ptpTime, ":00">>
    ELSE NullText

PtpDateTime(form) ==
    IF form.ptpDate # "" /\ form.ptpTime # ""
    THEN <<form.ptpDate, "T", form.ptpTime, ":00">>
    ELSE IF form.ptpDate # "" THEN <<form.ptpDate, "T", "00:00:00">>
    ELSE NullText

CallLogEntry(c, userId, form) ==
    [case_id |-> c, employee_id |-> userId, call_status |-> form.callStatus,
     ptp_date |-> PtpDateTime(form), call_notes |-> form.remarks,
     amount_collected |-> NullText]

LogFailures == {"none", "addCallLog", "updateCase"}

\* handleStatusUpdateSubmit: validate, addCallLog, then updateCase(status: 'in_progress')
LogCall(c, userId, form, fail) ==
    LET invalid == LogFormError(userId, form)
        logged == invalid = NULL /\ fail # "addCallLog"
        ok == logged /\ fail # "updateCase"
    IN /\ Exists(c)
       /\ invalid # NULL => fail = "none"
       /\ logged => Len(callLogs) < MaxLogs
       /\ callLogs' = IF logged THEN Append(callLogs, StoredCallLog(CallLogEntry(c, userId, form)))
                      ELSE callLogs
       /\ cases' = IF ok THEN SetStatus(cases, c, "in_progress") ELSE cases
       /\ last' = [op |-> "logCall", caseId |-> c, form |-> form, ok |-> ok,
                   error |-> IF ok THEN NULL
                             ELSE IF invalid # NULL THEN invalid
                             ELSE "Failed to save status update"]
       /\ UNCHANGED pay

----------------------------------------------------------------------------
(* Payment ledger: customerCaseService.recordPayment *)

Amounts == 1..MaxAmount

\* Variant: the new total is the payment alone.
NewTotalCollected_Overwrite(currentCase, amount) == amount

\* currentCollected + amount, with total_collected_amount || 0
NewTotalCollected(currentCase, amount) == currentCase.total_collected_amount + amount

\* remainingAmount = parseFloat(outstanding_amount || '0') - newTotalCollected
RemainingAmount(currentCase, amount) ==
    JSSub(ParseFloat(TextOr(currentCase.outstanding_amount, <<"0">>)),
          JSNum(NewTotalCollected(currentCase, amount)))

ShouldCloseCase(currentCase, amount) == JSLeqZero(RemainingAmount(currentCase, amount))

PaymentLogEntry(c, employeeId, amount, notes) ==
    [case_id |-> c, employee_id |-> employeeId, call_status |-> "PAYMENT_RECEIVED",
     ptp_date |-> NullText, call_notes |-> notes,
     amount_collected |-> NumToStr(amount)]

\* .update(updateData).eq('id', caseId) with updateData built from the locals
PaymentUpdate(store, c, newTotalCollected, shouldCloseCase) ==
    [k \in DOMAIN store |->
        IF k # c THEN store[k]
        ELSE IF shouldCloseCase
             THEN [store[k] EXCEPT !.total_collected_amount = newTotalCollected,
                                   !.case_status = "closed",
                                   !.status = "closed"]
             ELSE [store[k] EXCEPT !.total_collected_amount = newTotalCollected]]

PaymentFailures == {"none", "fetch", "log", "update"}

PaymentError(fetched, logged) ==
    IF ~fetched THEN "Failed to fetch case details"
    ELSE IF ~logged THEN "Failed to record payment log"
    ELSE "Failed to update case"

\* One recordPayment call run from its first line to its return, no other
\* request in between.
RecordPayment(c, employeeId, amount, fail) ==
    LET fetched == Exists(c) /\ fail # "fetch"
        logged == fetched /\ fail # "log"
        ok == logged /\ fail # "update"
    IN /\ logged => Len(callLogs) < MaxLogs
       /\ callLogs' = IF logged
                      THEN Append(callLogs,
                                  StoredCallLog(PaymentLogEntry(c, employeeId, amount, Notes)))
                      ELSE callLogs
       /\ cases' = IF ok
                   THEN PaymentUpdate(cases, c, NewTotalCollected(cases[c], amount),
                                      ShouldCloseCase(cases[c], amount))
                   ELSE cases
       /\ last' = [op |-> "recordPayment", caseId |-> c, amount |-> amount, ok |-> ok,
                   error |-> IF ok THEN NULL ELSE PaymentError(fetched, logged)]
       /\ UNCHANGED pay

----------------------------------------------------------------------------
(* Explicit close: handlePaymentReceived over updateCase and addCallLog *)

ClosedNotes ==
    <<"P", "a", "y", "m", "e", "n", "t", " ", "r", "e", "c", "e", "i",
    "v", "e", "d", " ", "-", " ", "c", "a", "s", "e", " ", "c", "l", "o",
    "s", "e", "d">>

\* getValue('outstandingAmount'): the first value that is neither undefined,
\* null nor '', '' when there is none
OutstandingValue(r) == TextOr(r.outstanding_amount, EmptyText)

ClosedLogEntry(c, r) ==
    [case_id |-> c, employee_id |-> "system", call_status |-> "PAYMENT_RECEIVED",
     ptp_date |-> NullText, call_notes |-> ClosedNotes,
     amount_collected |-> OutstandingValue(r)]

SetClosed(store, c) ==
    [k \in DOMAIN store |->
        IF k = c THEN [store[k] EXCEPT !.case_status = "closed", !.status = "closed"]
        ELSE store[k]]

CloseFailures == {"none", "updateCase", "addCallLog"}

\* handlePaymentReceived: updateCase(closed), then addCallLog; an error of
\* either is caught and logged to the console
HandlePaymentReceived(c, fail) ==
    LET updated == Exists(c) /\ fail # "updateCase"
        logged == /\ updated
                  /\ fail # "addCallLog"
                  /\ ~InsertRejected(ClosedLogEntry(c, cases[c]))
    IN /\ logged => Len(callLogs) < MaxLogs
       /\ cases' = IF updated THEN SetClosed(cases, c) ELSE cases
       /\ callLogs' = IF logged
                      THEN Append(callLogs, StoredCallLog(ClosedLogEntry(c, cases[c])))
                      ELSE callLogs
       /\ last' = [op |-> "paymentReceived", caseId |-> c, ok |-> logged,
                   error |-> IF logged THEN NULL
                             ELSE IF updated THEN "Failed to add call log"
                             ELSE "Failed to update case"]
       /\ UNCHANGED pay

----------------------------------------------------------------------------
(* Call history: customerCaseService.getCallLogsWithEmployeeDetails *)

\* Variant: oldest first.
CaseLogsNewestFirst_Ascending(logs, c) == SelectSeq(logs, LAMBDA l : l.case_id = c)

\* .eq('case_id', caseId).order('created_at', {ascending: false}); the log
\* store is kept in creation order
RECURSIVE CaseLogsNewestFirst(_, _)
CaseLogsNewestFirst(logs, c) ==
    IF logs = <<>> THEN <<>>
    ELSE LET newest == logs[Len(logs)]
             older == CaseLogsNewestFirst(SubSeq(logs, 1, Len(logs) - 1), c)
         IN IF newest.case_id = c THEN <<newest>> \o older ELSE older

\* employeeMap.get(log.employee_id) || 'Unknown'
EmployeeName(employeeId) ==
    IF \E k \in DOMAIN Employees : Employees[k].id = employeeId
    THEN Employees[CHOOSE k \in DOMAIN Employees : Employees[k].id = employeeId].name
    ELSE "Unknown"

HistoryFailures == {"none", "logs", "employees"}

\* The value the call returns, or the error it throws
GetCallLogsWithEmployeeDetails(c, fail) ==
    LET logs == CaseLogsNewestFirst(callLogs, c)
    IN IF fail = "logs"
       THEN [ok |-> FALSE, error |-> "Failed to fetch call logs", entries |-> <<>>]
       ELSE IF logs = <<>> THEN [ok |-> TRUE, error |-> NULL, entries |-> <<>>]
       ELSE IF fail = "employees"
       THEN [ok |-> TRUE, error |-> NULL,
             entries |-> [k \in DOMAIN logs |->
                             [log |-> logs[k], employee_name |-> "Unknown"]]]
       ELSE [ok |-> TRUE, error |-> NULL,
             entries |-> [k \in DOMAIN logs |->
                             [log |-> logs[k],
                              employee_name |-> EmployeeName(logs[k].employee_id)]]]

GetCallHistory(c, fail) ==
    LET out == GetCallLogsWithEmployeeDetails(c, fail)
    IN /\ last' = [op |-> "getCallHistory", caseId |-> c, fail |-> fail,
                   ok |-> out.ok, error |-> out.error, entries |-> out.entries]
       /\ UNCHANGED <<cases, callLogs, pay>>

----------------------------------------------------------------------------
(* recordPayment calls in flight at the same time: each await is a point   *)
(* where another call can run.                                             *)

Procs == {"p1", "p2"}

IdlePay ==
    [pc |-> "idle", caseId |-> 0, amount |-> 0, currentCollected |-> 0,
     newTotalCollected |-> 0, shouldCloseCase |-> FALSE]

\* await select(...).single(), then the locals computed from currentCase
PayFetch(p, c, amount, fail) ==
    /\ pay[p].pc = "idle"
    /\ fail \in {"none", "fetch"}
    /\ pay' = [pay EXCEPT ![p] =
                  IF Exists(c) /\ fail = "none"
                  THEN [pc |-> "fetched", caseId |-> c, amount |-> amount,
                        currentCollected |-> cases[c].total_collected_amount,
                        newTotalCollected |-> NewTotalCollected(cases[c], amount),
                        shouldCloseCase |-> ShouldCloseCase(cases[c], amount)]
                  ELSE [IdlePay EXCEPT !.pc = "failed", !.caseId = c, !.amount = amount]]
    /\ UNCHANGED <<cases, callLogs, last>>

\* await insert into the call log
PayLog(p, fail) ==
    /\ pay[p].pc = "fetched"
    /\ fail \in {"none", "log"}
    /\ fail = "none" => Len(callLogs) < MaxLogs
    /\ callLogs' = IF fail = "none"
                   THEN Append(callLogs,
                               StoredCallLog(PaymentLogEntry(pay[p].caseId, "u1",
                                                             pay[p].amount, Notes)))
                   ELSE callLogs
    /\ pay' = [pay EXCEPT ![p].pc = IF fail = "none" THEN "logged" ELSE "failed"]
    /\ UNCHANGED <<cases, last>>

\* await update of the case, then return
PayUpdate(p, fail) ==
    /\ pay[p].pc = "logged"
    /\ fail \in {"none", "update"}
    /\ cases' = IF fail = "none"
                THEN PaymentUpdate(cases, pay[p].caseId, pay[p].newTotalCollected,
                                   pay[p].shouldCloseCase)
                ELSE cases
    /\ pay' = [pay EXCEPT ![p].pc = IF fail = "none" THEN "done" ELSE "failed"]
    /\ last' = [op |-> "recordPayment", caseId |-> pay[p].caseId,
                amount |-> pay[p].amount, ok |-> fail = "none",
                error |-> IF fail = "none" THEN NULL ELSE "Failed to update case"]
    /\ UNCHANGED callLogs

----------------------------------------------------------------------------
(* Import file parsing: excelUtils.parseExcelFile, the reader.onload handler *)

UpperCase == <<"A", "D", "E", "I", "L", "M", "N", "O", "P">>
LowerCase == <<"a", "d", "e", "i", "l", "m", "n", "o", "p">>

ToLowerChar(ch) ==
    IF \E k \in DOMAIN UpperCase : UpperCase[k] = ch
    THEN LowerCase[CHOOSE k \in DOMAIN UpperCase : UpperCase[k] = ch]
    ELSE ch

\* toLowerCase()
ToLower(t) == [k \in DOMAIN t |-> ToLowerChar(t[k])]

\* a cell that is truthy: neither blank (undefined) nor ''
Truthy(cell) == cell # NullText /\ cell # EmptyText

\* String(h || '').toLowerCase().trim() === 'empid'
IsEmpIdHeader(h) == Trim(ToLower(TextOr(h, EmptyText))) = <<"e", "m", "p", "i", "d">>

\* Variant: the identifier column is taken to be the first one.
EmpIdIndex_FirstColumn(headers) == 1

\* headers.findIndex(...), 1-based; 0 stands for the -1 of no match
EmpIdIndex(headers) ==
    IF \E i \in DOMAIN headers : IsEmpIdHeader(headers[i])
    THEN CHOOSE i \in DOMAIN headers :
            /\ IsEmpIdHeader(headers[i])
            /\ \A j \in DOMAIN headers : IsEmpIdHeader(headers[j]) => i <= j
    ELSE 0

\* The product's column configuration
ColumnConfigs == <<
    [display_name |-> <<"L", "O", "A", "N", " ">>, column_name |-> "loan_id"]
>>

\* columns.find(col => col.display_name.toLowerCase().trim() === header...)
ColumnsFor(header, columns) ==
    {k \in DOMAIN columns :
        Trim(ToLower(columns[k].display_name)) = Trim(ToLower(header))}

ColumnNameFor(header, columns) ==
    columns[CHOOSE k \in ColumnsFor(header, columns) :
                \A j \in ColumnsFor(header, columns) : k <= j].column_name

\* the header positions that map to a configured column
MappedHeaders(headers, empIdIndex, columns) ==
    {i \in DOMAIN headers :
        /\ i # empIdIndex
        /\ Truthy(headers[i])
        /\ ColumnsFor(headers[i], columns) # {}}

\* .filter(row => row && row.length > 0 && row[empIdIndex])
RowKept(row, empIdIndex) == row # <<>> /\ Truthy(row[empIdIndex])

\* value !== undefined && value !== null ? value.toString().trim() : ''
CellValue(cell) == IF cell = NullText THEN EmptyText ELSE Trim(cell)

\* rowData: EMPID, then one entry per mapped header in header order, a later
\* header of the same column replacing an earlier one
ParsedRow(row, headers, empIdIndex, columns) ==
    LET mapped == MappedHeaders(headers, empIdIndex, columns)
        names == {ColumnNameFor(headers[i], columns) : i \in mapped}
        lastOf(name) ==
            CHOOSE i \in mapped :
                /\ ColumnNameFor(headers[i], columns) = name
                /\ \A j \in mapped :
                      ColumnNameFor(headers[j], columns) = name => j <= i
    IN [key \in {"EMPID"} \cup names |->
            IF key \in names THEN CellValue(row[lastOf(key)])
            ELSE Trim(row[empIdIndex])]

ErrEmptyFile == "Excel file is empty or has no data rows"
ErrNoEmpId ==
    "EMPID column not found in Excel file. Please ensure the first column is named \"EMPID\" (case insensitive)."
ErrNoColumns ==
    "No columns in the Excel file match your product's column configuration. Please download a fresh template for this product."

ParseRejected(error) == [ok |-> FALSE, error |-> error, rows |-> <<>>]

\* The handler on the sheet as sheet_to_json(worksheet, {header: 1}) gives it
ParseExcelFile(jsonData, columns) ==
    IF Len(jsonData) < 2 THEN ParseRejected(ErrEmptyFile)
    ELSE LET headers == jsonData[1]
             rows == Tail(jsonData)
             empIdIndex == EmpIdIndex(headers)
             kept == SelectSeq(rows, LAMBDA r : RowKept(r, empIdIndex))
         IN IF empIdIndex = 0 THEN ParseRejected(ErrNoEmpId)
            ELSE IF MappedHeaders(headers, empIdIndex, columns) = {}
                 THEN ParseRejected(ErrNoColumns)
            ELSE [ok |-> TRUE, error |-> NULL,
                  rows |-> [k \in DOMAIN kept |->
                               ParsedRow(kept[k], headers, empIdIndex, columns)]]

\* Header cells and data cells a sheet can hold
HeaderCells == {
    <<"E", "M", "P", "I", "D">>,
    <<" ", "e", "m", "p", "I", "d", " ">>,
    <<"E", "M", "P", " ", "I", "D">>,
    <<"L", "o", "a", "n">>,
    NullText
}

DataCells == {<<"E", "1">>, <<" ", "7", " ">>, <<" ">>, NullText}

HeaderRows == HeaderCells \X HeaderCells

DataRows == DataCells \X DataCells

Sheets ==
    {<<>>} \cup
    {<<h>> \o d : h \in HeaderRows,
                  d \in UNION {[1..n -> DataRows] : n \in 0..MaxSheetRows}}

----------------------------------------------------------------------------
(* Specifications *)

Init ==
    /\ cases = <<>>
    /\ callLogs = <<>>
    /\ pay = [p \in Procs |-> IdlePay]
    /\ last = [op |-> "init", ok |-> TRUE]
    /\ served = 0
    /\ modal = ClosedModal

\* An upload of up to MaxRows rows
Upload ==
    /\ served < MaxUploads
    /\ Serve
    /\ UNCHANGED modal
    /\ \E rows \in Batches : \E outcomes \in [DOMAIN rows -> StorageOutcomes] :
        CreateBulkCases(rows, outcomes)

\* An upload of a single row
UploadOne ==
    /\ Serve
    /\ UNCHANGED modal
    /\ \E row \in RowPool : \E outcome \in StorageOutcomes :
        CreateBulkCases(<<row>>, <<outcome>>)

Assign ==
    /\ Serve
    /\ UNCHANGED modal
    /\ \E c \in CaseIds : \E t \in EmployeeIds \cup {UnknownEmployeeId} :
        \E fail \in AssignFailures : AssignCase(c, t, fail)

Unassign ==
    /\ Serve
    /\ UNCHANGED modal
    /\ \E c \in CaseIds : \E fail \in {"none", "update"} : UnassignCase(c, fail)

Transfer ==
    /\ Serve
    /\ UNCHANGED modal
    /\ \E c \in CaseIds : \E t \in TeamIds : \E fail \in {"none", "update"} :
        ChangeTeam(c, t, fail)

Log ==
    /\ Serve
    /\ UNCHANGED modal
    /\ \E c \in CaseIds : \E in \in LogInputs : \E fail \in LogFailures :
        LogCall(c, in.userId, in.form, fail)

Pay ==
    /\ Serve
    /\ UNCHANGED modal
    /\ \E c \in CaseIds : \E amount \in Amounts : \E fail \in PaymentFailures :
        RecordPayment(c, "u1", amount, fail)

Close ==
    /\ Serve
    /\ UNCHANGED modal
    /\ \E c \in CaseIds : \E fail \in CloseFailures : HandlePaymentReceived(c, fail)

\* Requests served one after another, cases arriving one row per upload.
Next == UploadOne \/ Assign \/ Unassign \/ Transfer \/ Log \/ Pay \/ Close

Spec == Init /\ [][Next]_vars

PayFetchStep ==
    /\ Serve
    /\ UNCHANGED modal
    /\ \E p \in Procs : \E c \in CaseIds : \E amount \in Amounts :
        \E fail \in {"none", "fetch"} : PayFetch(p, c, amount, fail)

PayLogStep ==
    /\ UNCHANGED <<served, modal>>
    /\ \E p \in Procs : \E fail \in {"none", "log"} : PayLog(p, fail)

PayUpdateStep ==
    /\ UNCHANGED <<served, modal>>
    /\ \E p \in Procs : \E fail \in {"none", "update"} : PayUpdate(p, fail)

\* Two recordPayment calls interleaved at their awaits, over uploaded cases.
NextConc == UploadOne \/ PayFetchStep \/ PayLogStep \/ PayUpdateStep

SpecConc == Init /\ [][NextConc]_vars

BulkOperate ==
    /\ Serve
    /\ UNCHANGED modal
    /\ \E actionType \in ActionTypes : \E selected \in SelectedTargets(actionType) :
        \E ids \in Selections : \E fails \in [DOMAIN ids -> CaseFailures(actionType)] :
            HandleBulkAssignment(actionType, selected, ids, fails)

\* Bulk assignment over uploaded cases.
NextOps == UploadOne \/ BulkOperate

SpecOps == Init /\ [][NextOps]_vars

History ==
    /\ Serve
    /\ UNCHANGED modal
    /\ \E c \in CaseIds : \E fail \in HistoryFailures : GetCallHistory(c, fail)

\* Reads of the call history between payments and closes.
NextRead == UploadOne \/ Pay \/ Close \/ History

SpecRead == Init /\ [][NextRead]_vars

\* Rows of two loans of the user's tenant.
TeamRows ==
    {[tenant_id |-> UserTenant, loan_id |-> loan, customer_name |-> "A",
      outstanding_amount |-> <<"3">>, case_data |-> [EMPID |-> empId]] :
        loan \in {"L1", "L2"}, empId \in {"E1", ""}}

\* The store after the two loans were uploaded and moved to team T1.
TeamStores ==
    {[k \in 1..2 |->
         [InsertedCase(AssignedRow(rows[k], TelecallerMap(ActiveTelecallers(UserTenant))))
             EXCEPT !.team_id = "T1"]] :
        rows \in {r \in [1..2 -> TeamRows] : r[1].loan_id = "L1" /\ r[2].loan_id = "L2"}}

InitModal ==
    /\ cases \in TeamStores
    /\ callLogs = <<>>
    /\ pay = [p \in Procs |-> IdlePay]
    /\ last = [op |-> "init", ok |-> TRUE]
    /\ served = 0
    /\ modal = ClosedModal

TeamChange ==
    \E teamId \in TeamIds : \E fail \in BOOLEAN : HandleTeamChange(teamId, fail)

ActionTypeChange == \E actionType \in ActionTypes : SetActionType(actionType)

TelecallerChange ==
    \E target \in SelectedTargets(modal.actionType) : SetSelectedTelecaller(target)

CaseSelect == \E c \in CaseIds : HandleCaseSelect(c)

\* The submit button: handleBulkAssignment on the dialog's state, then the
\* reload of the team's cases when a call succeeded.
Submit ==
    /\ served < MaxSubmits
    /\ served' = served + 1
    /\ \E fails \in [DOMAIN modal.selectedCases -> CaseFailures(modal.actionType)] :
         \E reloadFail \in BOOLEAN :
            /\ HandleBulkAssignment(modal.actionType, modal.selectedTelecaller,
                                    modal.selectedCases, fails)
            /\ modal' = IF last'.ok /\ last'.result.success > 0
                        THEN LoadTeamCases(modal, cases', modal.selectedTeam, reloadFail)
                        ELSE modal

NextModal ==
    TeamChange \/ ActionTypeChange \/ TelecallerChange \/ CaseSelect \/ HandleSelectAll
    \/ Submit

\* A team incharge working in the dialog on a team of two cases.
SpecModal == InitModal /\ [][NextModal]_vars

\* A file has been picked for import.
InitParse ==
    /\ cases = <<>>
    /\ callLogs = <<>>
    /\ pay = [p \in Procs |-> IdlePay]
    /\ last \in {[op |-> "file", ok |-> TRUE, jsonData |-> sheet] : sheet \in Sheets}
    /\ served = 0
    /\ modal = ClosedModal

Parse ==
    /\ last.op = "file"
    /\ LET out == ParseExcelFile(last.jsonData, ColumnConfigs)
       IN last' = [op |-> "parseExcelFile", jsonData |-> last.jsonData,
                   ok |-> out.ok, error |-> out.error, rows |-> out.rows]
    /\ UNCHANGED <<cases, callLogs, pay, served, modal>>

NextParse == Parse

SpecParse == InitParse /\ [][NextParse]_vars

\* The store under multi-row uploads alone.
NextBulk == Upload

SpecBulk == Init /\ [][NextBulk]_vars

----------------------------------------------------------------------------
(* Properties *)

IsUpload == last.op = "createBulkCases"

PaymentEntries(c) ==
    {k \in DOMAIN callLogs :
        callLogs[k].case_id = c /\ callLogs[k].call_status = "PAYMENT_RECEIVED"}

Closed(r) == r.status = "closed" /\ r.case_status = "closed"

Min(a, b) == IF a <= b THEN a ELSE b

\* C1: when two recordPayment calls on the same case have both returned
\* successfully, however their reads and writes interleaved, the case's
\* total_collected_amount is the total before the two calls plus both amounts.
C1_NoPaymentLost ==
    \A p, q \in Procs :
        (/\ p # q
         /\ pay[p].pc = "done" /\ pay[q].pc = "done"
         /\ pay[p].caseId = pay[q].caseId)
        => cases[pay[p].caseId].total_collected_amount
             = Min(pay[p].currentCollected, pay[q].currentCollected)
               + pay[p].amount + pay[q].amount

\* C2: with requests served one after another, no step lowers the
\* total_collected_amount of any case.
C2_TotalNeverDecreases ==
    [][\A c \in DOMAIN cases :
          cases'[c].total_collected_amount >= cases[c].total_collected_amount]_vars

\* a second successful payment has been added to a first one
C2_Witness ==
    /\ last.op = "recordPayment" /\ last.ok
    /\ Cardinality(PaymentEntries(last.caseId)) >= 2
    /\ cases[last.caseId].total_collected_amount >= 2

\* C3: a successful recordPayment(amount) on a case whose outstanding_amount
\* is a number sets total_collected_amount to the previous total plus amount;
\* it sets case_status and status to closed when that sum reaches the
\* outstanding amount and leaves case_status as it was when it does not.
C3_PaymentAppliesAndCloses ==
    [][(last'.op = "recordPayment" /\ last'.ok)
       => LET c == last'.caseId
              old == cases[c]
              new == cases'[c]
              outstanding == ParseFloat(old.outstanding_amount)
              sum == old.total_collected_amount + last'.amount
          IN ~outstanding.nan
             => /\ new.total_collected_amount = sum
                /\ sum >= outstanding.val
                     => new.case_status = "closed" /\ new.status = "closed"
                /\ sum < outstanding.val => new.case_status = old.case_status]_vars

\* a partial payment left the case open and the next one closed it
C3_Witness ==
    /\ last.op = "recordPayment" /\ last.ok
    /\ Cardinality(PaymentEntries(last.caseId)) >= 2
    /\ ~ParseFloat(cases[last.caseId].outstanding_amount).nan
    /\ cases[last.caseId].total_collected_amount
         = ParseFloat(cases[last.caseId].outstanding_amount).val
    /\ last.amount < cases[last.caseId].total_collected_amount
    /\ Closed(cases[last.caseId])

\* C4: the counters an upload returns satisfy
\* autoAssigned + unassigned = totalUploaded, also when rows fail in storage.
C4_AssignedPlusUnassignedIsUploaded ==
    IsUpload
    => last.result.autoAssigned + last.result.unassigned = last.result.totalUploaded

\* C5: the counters an upload returns satisfy
\* totalUploaded + number of errors = number of input rows, whichever rows
\* fail and however they fail.
C5_UploadedPlusErrorsIsRows ==
    IsUpload
    => last.result.totalUploaded + Len(last.result.errors) = Len(last.rows)

\* an upload one row of which threw, or returned an error, and one succeeded
C5_Witness ==
    /\ IsUpload
    /\ \E i, j \in DOMAIN last.rows :
          last.outcomes[i] # "ok" /\ last.outcomes[j] = "ok"
    /\ last.result.totalUploaded >= 1
    /\ Len(last.result.errors) >= 1

\* the rows of the latest upload that failed in storage, in input order
FailedRows == SelectSeq([i \in DOMAIN last.rows |-> i], LAMBDA i : last.outcomes[i] # "ok")

\* row j reached storage and no later row that reached storage has its key
LastApplied(j) ==
    /\ last.outcomes[j] = "ok"
    /\ \A k \in DOMAIN last.rows :
          k > j /\ SameKey(last.rows[k], last.rows[j]) => last.outcomes[k] # "ok"

\* C6: a storage failure on a row does not abort the upload: the upsert of
\* every row is issued, in input order; each failed row is in the error list
\* with its 1-based index and its data; and every row that reached storage is
\* in the store afterwards, rows before a failed one included.
C6_FailureDoesNotAbort ==
    IsUpload
    => /\ last.result.attempted = [i \in DOMAIN last.rows |-> i]
       /\ Len(last.result.errors) = Len(FailedRows)
       /\ \A e \in DOMAIN last.result.errors :
             /\ last.result.errors[e].row = FailedRows[e]
             /\ MappedFields(last.result.errors[e].data)
                  = MappedFields(last.rows[FailedRows[e]])
       /\ \A j \in DOMAIN last.rows :
             LastApplied(j)
             => \E c \in DOMAIN cases :
                   MappedFields(cases[c]) = MappedFields(last.rows[j])

\* the first row failed, the second one was still upserted and is stored
C6_Witness ==
    /\ IsUpload
    /\ Len(last.rows) >= 2
    /\ last.outcomes[1] # "ok"
    /\ last.outcomes[2] = "ok"
    /\ ~SameKey(last.rows[1], last.rows[2])
    /\ last.result.attempted = <<1, 2>>
    /\ \E c \in DOMAIN cases : MappedFields(cases[c]) = MappedFields(last.rows[2])

\* C7: an upload that re-applies to a case the row it already holds leaves
\* the case equal in every mapped column, leaves it the only case of its
\* (tenant, loan id), and leaves its total_collected_amount as it was.
C7_RerunIsIdempotent ==
    [][last'.op = "createBulkCases"
       => \A c \in IdenticalRerun(cases, last'.rows, last'.outcomes) :
             /\ MappedFields(cases'[c]) = MappedFields(cases[c])
             /\ CasesWithKey(cases', cases[c].tenant_id, cases[c].loan_id) = {c}
             /\ cases'[c].total_collected_amount = cases[c].total_collected_amount]_vars

\* a case with a payment on it has had its row uploaded again
C7_Witness ==
    /\ IsUpload
    /\ \E c \in last.rerun :
          /\ cases[c].total_collected_amount > 0
          /\ PaymentEntries(c) # {}

\* C8: Assign, Unassign and ChangeTeam on a case whose case_status is closed
\* fail, and leave the case as it was.
C8_ClosedCaseRejectsAssignment ==
    [][\A c \in DOMAIN cases :
          (/\ cases[c].case_status = "closed"
           /\ last'.op \in {"assign", "unassign", "changeTeam"}
           /\ last'.caseId = c)
          => ~last'.ok /\ cases'[c] = cases[c]]_vars

\* C9: a case whose status and case_status are closed keeps both closed in
\* every later state.
C9_ClosureIsIrreversible ==
    [][\A c \in DOMAIN cases : Closed(cases[c]) => Closed(cases'[c])]_vars

StatusRank(st) ==
    IF st = "new" THEN 0
    ELSE IF st = "assigned" THEN 1
    ELSE IF st = "in_progress" THEN 2
    ELSE 3

\* C10: a successful LogCall moves a case whose status was assigned to
\* in_progress and moves no case to an earlier stage of
\* new < assigned < in_progress < closed.
C10_LogCallNeverRegresses ==
    [][(last'.op = "logCall" /\ last'.ok)
       => LET old == cases[last'.caseId]
              new == cases'[last'.caseId]
          IN /\ old.status = "assigned" => new.status = "in_progress"
             /\ StatusRank(new.status) >= StatusRank(old.status)]_vars

ValidationErrors ==
    {"Missing case or user information", "Please fill in all required fields",
     "PTP Date is required for Promise to Pay"}

MissingPromiseDate(form) ==
    form.callStatus \in {"PTP", "FUTURE_PTP"} /\ form.ptpDate = ""

BlankNotes(form) == \A k \in DOMAIN form.remarks : form.remarks[k] = " "

\* C11: a LogCall whose outcome is PTP or FUTURE_PTP without a promise-to-pay
\* date, or whose notes are empty or only blanks, is rejected by validation
\* before anything is written: no call-log entry is appended and no case
\* changes.
C11_InvalidLogCallRejected ==
    [][(/\ last'.op = "logCall"
        /\ MissingPromiseDate(last'.form) \/ BlankNotes(last'.form))
       => /\ ~last'.ok
          /\ last'.error \in ValidationErrors
          /\ callLogs' = callLogs
          /\ cases' = cases]_vars

\* a promise to pay with notes but without a date was submitted on an
\* assigned case and rejected
C11_Witness ==
    /\ last.op = "logCall"
    /\ MissingPromiseDate(last.form)
    /\ ~BlankNotes(last.form)
    /\ ~last.ok
    /\ cases[last.caseId].status = "assigned"

\* the stored outstanding_amount is missing, empty or not a number
UnknownOutstanding(r) == ParseFloat(r.outstanding_amount).nan

\* C12: a recordPayment on a case whose outstanding_amount is missing, empty
\* or not a number does not set the case's status or case_status to closed.
C12_UnknownOutstandingNeverCloses ==
    [][\A c \in DOMAIN cases :
          (/\ last'.op = "recordPayment"
           /\ last'.caseId = c
           /\ UnknownOutstanding(cases[c]))
          => /\ cases[c].status # "closed" => cases'[c].status # "closed"
             /\ cases[c].case_status # "closed" => cases'[c].case_status # "closed"]_vars

\* C13: after a recordPayment has been applied to a case whose
\* outstanding_amount is a number, also to a case that was already closed,
\* total_collected_amount exceeds the outstanding amount by at most the
\* amount of that payment.
C13_ExcessAtMostLatestPayment ==
    (last.op = "recordPayment" /\ last.ok /\ ~UnknownOutstanding(cases[last.caseId]))
    => cases[last.caseId].total_collected_amount
         - ParseFloat(cases[last.caseId].outstanding_amount).val <= last.amount

\* the active telecallers of the upload's tenant whose employee id string is
\* the EMPID of row j
RowTelecallers(j) ==
    {k \in DOMAIN Employees :
        /\ Employees[k].tenant_id = last.rows[1].tenant_id
        /\ Employees[k].role = "Telecaller"
        /\ Employees[k].status = "active"
        /\ Employees[k].emp_id = last.rows[j].case_data.EMPID}

C15_AssignSetsAssignment ==
    [][\A c \in DOMAIN cases :
          (/\ last'.op = "assign" /\ last'.ok /\ last'.caseId = c
           /\ cases[c].status # "closed" /\ cases[c].case_status # "closed")
          => /\ cases'[c].telecaller_id = last'.telecallerId
             /\ \E k \in DOMAIN Employees :
                   /\ Employees[k].id = last'.telecallerId
                   /\ cases'[c].assigned_employee_id = Employees[k].emp_id
             /\ cases'[c].status = "assigned"]_vars

\* a case uploaded with EMPID E1, with an entry in the call log, has been
\* assigned to u2
C15_Witness ==
    /\ last.op = "assign" /\ last.ok /\ last.telecallerId = "u2"
    /\ last.caseId \in DOMAIN cases
    /\ cases[last.caseId].case_data.EMPID = "E1"
    /\ cases[last.caseId].telecaller_id = "u2"
    /\ cases[last.caseId].assigned_employee_id = "E2"
    /\ cases[last.caseId].status = "assigned"
    /\ \E k \in DOMAIN callLogs : callLogs[k].case_id = last.caseId

\* C16: an Assign whose telecaller id is the id of no employee fails with
\* the telecaller-not-found error and changes no case: telecaller_id,
\* assigned_employee_id and status stay as they were.
C16_UnknownTelecallerRejected ==
    [][(/\ last'.op = "assign"
        /\ \A k \in DOMAIN Employees : Employees[k].id # last'.telecallerId)
       => /\ ~last'.ok
          /\ last'.error = "Failed to find telecaller details"
          /\ cases' = cases]_vars

\* an assigned case was to be given to a telecaller that does not exist and
\* still has its telecaller
C16_Witness ==
    /\ last.op = "assign" /\ ~last.ok
    /\ last.telecallerId = UnknownEmployeeId
    /\ last.caseId \in DOMAIN cases
    /\ cases[last.caseId].telecaller_id = "u1"
    /\ cases[last.caseId].assigned_employee_id = "E1"
    /\ cases[last.caseId].status = "assigned"

C18_ChangeTeamOnlySetsTeam ==
    [][last'.op = "changeTeam"
       => /\ callLogs' = callLogs
          /\ IF last'.ok
             THEN /\ last'.caseId \in DOMAIN cases
                  /\ cases' = [cases EXCEPT ![last'.caseId].team_id = last'.teamId]
             ELSE cases' = cases]_vars

\* a case with a telecaller and a payment on it has been moved to team T2
C18_Witness ==
    /\ last.op = "changeTeam" /\ last.ok
    /\ cases[last.caseId].team_id = "T2"
    /\ cases[last.caseId].telecaller_id = "u1"
    /\ cases[last.caseId].status = "assigned"
    /\ cases[last.caseId].total_collected_amount > 0

\* the positions of the latest bulk assignment whose call failed: the storage
\* call failed, the telecaller to assign is no employee, or the case to move
\* to a team does not exist
FailedCalls ==
    SelectSeq([i \in DOMAIN last.caseIds |-> i],
              LAMBDA i :
                  \/ last.fails[i] # "none"
                  \/ /\ last.action = "assign"
                     /\ \A k \in DOMAIN Employees : Employees[k].id # last.selected
                  \/ /\ last.action = "change_team"
                     /\ last.caseIds[i] \notin DOMAIN cases)

\* C19: a bulk assignment over a list of case ids makes the call for every
\* case id, in order, also after an earlier one failed; its report has
\* total = number of case ids, success + errors = total, and errorDetails
\* holds one entry for each failed case, in order, and nothing else.
C19_BulkReportAccountsForEveryCase ==
    (last.op = "bulkAssignment" /\ last.ok)
    => /\ last.attempted = last.caseIds
       /\ last.result.total = Len(last.caseIds)
       /\ last.result.success + last.result.errors = last.result.total
       /\ last.result.errors = Len(FailedCalls)
       /\ Len(last.result.errorDetails) = Len(FailedCalls)
       /\ \A e \in DOMAIN last.result.errorDetails :
             last.result.errorDetails[e].caseId
               = Substring8(CaseIdText(last.caseIds[FailedCalls[e]]))

\* the call for the first of two cases failed in storage and the second
\* case was still assigned
C19_Witness ==
    /\ last.op = "bulkAssignment" /\ last.ok
    /\ last.action = "assign"
    /\ Len(last.caseIds) = 2
    /\ last.fails[1] = "update" /\ last.fails[2] = "none"
    /\ last.result.success = 1 /\ last.result.errors = 1
    /\ last.caseIds[1] \in DOMAIN cases
    /\ last.caseIds[2] \in DOMAIN cases
    /\ cases[last.caseIds[2]].telecaller_id = last.selected
    /\ cases[last.caseIds[1]].telecaller_id # last.selected

Parsed == last.op = "parseExcelFile"

\* the header cells that read EMPID once trimmed, whatever their case
EmpIdSpellings == {<<"E", "M", "P", "I", "D">>, <<" ", "e", "m", "p", "I", "d", " ">>}

NoEmpIdHeader(jsonData) ==
    jsonData = <<>> \/ \A i \in DOMAIN jsonData[1] : jsonData[1][i] \notin EmpIdSpellings

\* C20 as stated: when no header of the sheet is EMPID (trimmed, in any
\* case), the parse fails with the missing-EMPID error and yields no row.
C20_MissingEmpIdRejected ==
    (Parsed /\ NoEmpIdHeader(last.jsonData))
    => ~last.ok /\ last.error = ErrNoEmpId /\ last.rows = <<>>

\* C20, amended: when the sheet has a header row and at least one row below
\* it, and no header is EMPID (trimmed, in any case), the parse fails with
\* the missing-EMPID error and yields no row; a sheet of fewer than two rows
\* fails with the empty-file error and yields no row.
C20_MissingEmpIdRejectedBelowHeader ==
    Parsed
    => /\ (Len(last.jsonData) >= 2 /\ NoEmpIdHeader(last.jsonData))
             => ~last.ok /\ last.error = ErrNoEmpId /\ last.rows = <<>>
       /\ Len(last.jsonData) < 2
             => ~last.ok /\ last.error = ErrEmptyFile /\ last.rows = <<>>

\* a sheet whose headers are "EMP ID" and a configured column, with two data
\* rows that carry an employee id, has been rejected
C20_Witness ==
    /\ Parsed
    /\ Len(last.jsonData) = 3
    /\ last.jsonData[1] = <<(<<"E", "M", "P", " ", "I", "D">>), (<<"L", "o", "a", "n">>)>>
    /\ last.jsonData[2][1] = <<"E", "1">>
    /\ last.jsonData[3][1] = <<"E", "1">>
    /\ ~last.ok
    /\ last.error = ErrNoEmpId

\* the rows below the header that hold something in at least one cell
FilledRows(jsonData) ==
    SelectSeq(Tail(jsonData), LAMBDA r : \E i \in DOMAIN r : r[i] # NullText)

\* the configured column names that some header other than EMPID resolves to
MatchedKeys(headers) ==
    {ColumnConfigs[k].column_name : k \in
        {k \in DOMAIN ColumnConfigs :
            \E i \in DOMAIN headers :
                /\ headers[i] \notin EmpIdSpellings \cup {NullText}
                /\ Trim(ToLower(headers[i])) = Trim(ToLower(ColumnConfigs[k].display_name))}}

\* C21: a successful parse yields one record for each data row of the
\* sheet, in order; each record holds EMPID and exactly one entry for every
\* matched column, nothing for an unmatched header; the entry of an empty
\* cell is the empty string.
C21_OneRecordPerDataRow ==
    (Parsed /\ last.ok)
    => LET filled == FilledRows(last.jsonData)
       IN /\ Len(last.rows) = Len(filled)
          /\ \A k \in DOMAIN last.rows :
                /\ DOMAIN last.rows[k] = {"EMPID"} \cup MatchedKeys(last.jsonData[1])
                /\ \A key \in DOMAIN last.rows[k] :
                      \E i \in DOMAIN filled[k] :
                          last.rows[k][key] = CellValue(filled[k][i])

RECURSIVE Reverse(_)
Reverse(q) == IF q = <<>> THEN <<>> ELSE Append(Reverse(Tail(q)), Head(q))

\* C22: a read of a case's call history whose log query succeeds returns the
\* entries of the case, most recent first, whether or not the employee
\* query fails; an entry is named after its employee, and "Unknown" when the
\* employee query failed or no employee has the entry's employee id.
C22_HistoryNewestFirstNamesDegrade ==
    (last.op = "getCallHistory" /\ last.fail # "logs")
    => LET expected == Reverse(SelectSeq(callLogs, LAMBDA l : l.case_id = last.caseId))
       IN /\ last.ok
          /\ Len(last.entries) = Len(expected)
          /\ \A k \in DOMAIN last.entries :
                /\ last.entries[k].log = expected[k]
                /\ last.entries[k].employee_name =
                     IF last.fail = "employees" THEN "Unknown"
                     ELSE IF expected[k].employee_id = "u1" THEN "Asha"
                     ELSE IF expected[k].employee_id = "u2" THEN "Ravi"
                     ELSE "Unknown"

\* a history of two entries: the close logged by 'system', which is no
\* employee, comes before the earlier payment logged by u1
C22_Witness ==
    /\ last.op = "getCallHistory" /\ last.ok /\ last.fail = "none"
    /\ Len(last.entries) = 2
    /\ last.entries[1].log.employee_id = "system"
    /\ last.entries[1].employee_name = "Unknown"
    /\ last.entries[2].log.employee_id = "u1"
    /\ last.entries[2].employee_name = "Asha"
    /\ callLogs[1].employee_id = "u1"

\* C23: no case is assigned to a telecaller of another tenant: a case with a
\* telecaller_id holds the id of an employee whose tenant is the case's
\* tenant, after Assign and after an upload whose rows name several tenants.
C23_NoCrossTenantAssignment ==
    \A c \in DOMAIN cases :
       cases[c].telecaller_id # NULL
       => \E k \in DOMAIN Employees :
             /\ Employees[k].id = cases[c].telecaller_id
             /\ Employees[k].tenant_id = cases[c].tenant_id

\* C24: in every state of the call log, every PAYMENT_RECEIVED entry holds a
\* collected amount that is present and at least 0, and every PTP or
\* FUTURE_PTP entry holds a promise-to-pay timestamp, whether a logged call,
\* a recorded payment or an explicit close appended it.
C24_LogEntriesWellFormed ==
    \A k \in DOMAIN callLogs :
       /\ callLogs[k].call_status = "PAYMENT_RECEIVED"
          => callLogs[k].amount_collected \in Nat
       /\ callLogs[k].call_status \in {"PTP", "FUTURE_PTP"}
          => /\ callLogs[k].ptp_date # NullText
             /\ callLogs[k].ptp_date # EmptyText

\* the log holds a promise to pay entered with a date and no time, a
\* recorded payment and the entry of an explicit close
C24_Witness ==
    /\ Len(callLogs) = 3
    /\ \E k \in DOMAIN callLogs :
          /\ callLogs[k].call_status = "PTP"
          /\ callLogs[k].ptp_date = <<"d", "T", "00:00:00">>
    /\ \E k \in DOMAIN callLogs :
          /\ callLogs[k].call_status = "PAYMENT_RECEIVED"
          /\ callLogs[k].employee_id = "system"
          /\ callLogs[k].amount_collected = 3
    /\ \E k \in DOMAIN callLogs :
          /\ callLogs[k].call_status = "PAYMENT_RECEIVED"
          /\ callLogs[k].employee_id # "system"
          /\ callLogs[k].amount_collected = 1

\* C25: every change of a case's status is a transition of the state
\* machine: new to assigned by Assign, assigned to in_progress by LogCall,
\* in_progress to closed by a payment or an explicit close, or a status
\* other than closed to new by Unassign.
C25_OnlySpecifiedTransitions ==
    [][\A c \in DOMAIN cases :
          cases'[c].status # cases[c].status
          => \/ /\ cases[c].status = "new" /\ cases'[c].status = "assigned"
                /\ last'.op = "assign"
             \/ /\ cases[c].status = "assigned" /\ cases'[c].status = "in_progress"
                /\ last'.op = "logCall"
             \/ /\ cases[c].status = "in_progress" /\ cases'[c].status = "closed"
                /\ last'.op \in {"recordPayment", "paymentReceived"}
             \/ /\ cases[c].status # "closed" /\ cases'[c].status = "new"
                /\ last'.op = "unassign"]_vars

\* C26: a recordPayment that fails, at the case fetch, at the log insert or
\* at the case update, adds no entry to the call log and leaves the case's
\* total_collected_amount, status and case_status as they were.
C26_FailedPaymentLeavesNoTrace ==
    [][(last'.op = "recordPayment" /\ ~last'.ok)
       => /\ callLogs' = callLogs
          /\ \A c \in DOMAIN cases :
                /\ cases'[c].total_collected_amount = cases[c].total_collected_amount
                /\ cases'[c].status = cases[c].status
                /\ cases'[c].case_status = cases[c].case_status]_vars

RECURSIVE CollectedSum(_)
CollectedSum(entries) ==
    IF entries = {} THEN 0
    ELSE LET k == CHOOSE x \in entries : TRUE
         IN callLogs[k].amount_collected + CollectedSum(entries \ {k})

\* C27: between operations, the total_collected_amount of every case is the
\* sum of the collected amounts of the case's PAYMENT_RECEIVED entries,
\* after any sequence of recorded payments and explicit closes.
C27_TotalIsSumOfPaymentEntries ==
    \A c \in DOMAIN cases :
       cases[c].total_collected_amount = CollectedSum(PaymentEntries(c))

C30_AssignSubmitsOnlyUnassigned ==
    [][(last'.op = "bulkAssignment" /\ last'.action = "assign" /\ last'.ok)
       => \A i \in DOMAIN last'.caseIds :
             /\ \E k \in DOMAIN GetApplicableCases(modal) :
                   GetApplicableCases(modal)[k].id = last'.caseIds[i]
             /\ cases[last'.caseIds[i]].telecaller_id = NULL]_vars

====
